---- MODULE Spec2Model ----
(***************************************************************************)
(* A model of streetwarp-cli: the bounded-lookahead dynamic program of    *)
(* src/optim.rs (dp, cost) with the copying of the kept images            *)
(* (optimize_sequence), and of src/main.rs the panorama deduplication     *)
(* (group_by_location), the track sampler (sample_points_by_distance,     *)
(* find_bearings), the requests of get_metadata and get_images, and the   *)
(* order of the stages of main; the debounced progress messages of        *)
(* src/progress.rs.  Each function has its own variables and its own      *)
(* specification, in which the other functions are idle.                  *)
(*                                                                         *)
(* f64 values are modelled in fixed point: the value x is the integer     *)
(* x * One, where One is chosen so that every hash cost (a multiple of    *)
(* 1/HashBits) and every multiple of SKIP_PENALTY (0.3) is an integer.    *)
(* The one non-finite value the code can produce, NaN = 0.0 / 0.0, is the *)
(* separate value NaN.  Rounding of f64 additions is not modelled.        *)
(***************************************************************************)
EXTENDS Integers, Sequences, FiniteSets, TLC

VARIABLES
    \* dp (src/optim.rs)
    hashes,        \* the argument of dp: one hash per frame
    costs,         \* costs[i]: lowest cost at which frame i can be used
    prevs,         \* prevs[i]: the predecessor chosen for frame i
    new_indices,   \* the index list built by the backtracking loop / returned
    next,          \* the backtracking cursor
    dpPc,          \* "loop", "backtrack", "done" or "panic"
    \* group_by_location (src/main.rs)
    point_bearings,  \* argument: the viewpoints
    metadata,        \* argument: the metadata records
    zipPos,          \* number of zipped pairs the for loop has consumed
    grouped_points,  \* Vec<Vec<(PointBearing, GSVMetadata, f64)>>
    last_pano,       \* Option<String>
    best_groups,     \* the representatives, one per group
    grpResult,       \* the returned (point_bearings, metadata, errs)
    grpPc,           \* "walk", "done" or "panic"
    \* sample_points_by_distance and find_bearings (src/main.rs)
    points,          \* argument: the track
    expected_frames, \* argument n: the number of points to sample
    distances,       \* argument: the distances between neighbouring points
    current,         \* the distance walked so far
    idx,             \* the index of the point the loop looks at
    sample,          \* the sampled points
    results,         \* the viewpoints find_bearings returns
    smpPc,           \* "sample", "bearings", "done" or "panic"
    \* get_metadata and get_images (src/main.rs)
    fetch_fn,            \* "get_metadata" or "get_images"
    n_viewpoints,        \* point_bearings.len()
    network_concurrency, \* CLI_OPTIONS.network_concurrency: Option<usize>
    started,             \* number of requests the stream has started
    in_flight,           \* indices of the requests in progress
    indexed_metadata,    \* (index, parsed) in the order of completion
    fetched_metadata,    \* what get_metadata returns
    files,               \* the files of out_dir: name -> bytes
    fetchPc,             \* "stream", "done" or "panic"
    \* main (src/main.rs)
    dry_run,         \* CLI_OPTIONS.dry_run
    print_metadata,  \* CLI_OPTIONS.print_metadata
    minterp,         \* CLI_OPTIONS.minterp.unwrap_or("good")
    calls,           \* what main has called and printed so far, in order
    mainPc,          \* the stage main is in, "returned" or "panic"
    \* optimize_sequence (src/optim.rs)
    images,          \* the images get_images stored, by index
    n_images,        \* argument
    image_dir,       \* the files of image_dir: name -> content
    kept_indices,    \* what dp returned
    copied,          \* number of copies for_each has made
    optResult,       \* the returned usize
    optPc,           \* "hash", "dp", "copy", "done" or "panic"
    \* progress and progress_stage (src/progress.rs)
    progress_enabled,    \* CLI_OPTIONS.progress
    last_progress_time,  \* LAST_PROGRESS_TIME
    clock,               \* SystemTime::now(), in ms since the epoch
    callerPc,            \* per caller: idle, or about to print the line of a call
    decisions,           \* the calls in the order they took the lock
    stdout,              \* the lines printed
    prgPc                \* "run"

dpVars  == <<hashes, costs, prevs, new_indices, next, dpPc>>
grpVars == <<point_bearings, metadata, zipPos, grouped_points, last_pano,
             best_groups, grpResult, grpPc>>
smpVars == <<points, expected_frames, distances, current, idx, sample, results,
             smpPc>>
fetchVars == <<fetch_fn, n_viewpoints, network_concurrency, started, in_flight,
               indexed_metadata, fetched_metadata, files, fetchPc>>
mainVars == <<dry_run, print_metadata, minterp, calls, mainPc>>
optVars == <<images, n_images, image_dir, kept_indices, copied, optResult, optPc>>
prgVars == <<progress_enabled, last_progress_time, clock, callerPc, decisions,
             stdout, prgPc>>
vars    == <<dpVars, grpVars, smpVars, fetchVars, mainVars, optVars, prgVars>>

\* what an action of one function leaves alone: the state of the others
notDp  == <<grpVars, smpVars, fetchVars, mainVars, optVars, prgVars>>
notGrp == <<dpVars, smpVars, fetchVars, mainVars, optVars, prgVars>>
notSmp == <<dpVars, grpVars, fetchVars, mainVars, optVars, prgVars>>
notFetch == <<dpVars, grpVars, smpVars, mainVars, optVars, prgVars>>
notMain == <<dpVars, grpVars, smpVars, fetchVars, optVars, prgVars>>
notOpt == <<dpVars, grpVars, smpVars, fetchVars, mainVars, prgVars>>
notOptNorDp == <<grpVars, smpVars, fetchVars, mainVars, prgVars>>
notPrg == <<dpVars, grpVars, smpVars, fetchVars, mainVars, optVars>>

-----------------------------------------------------------------------------
(* Bounds of the model *)

MaxFrames == 5      \* dp is run on 0..MaxFrames hashes
MaxPoints == 3      \* group_by_location is run on sequences of 0..MaxPoints
MaxTrack  == 4      \* tracks of 0..MaxTrack points are sampled
MaxTarget == 4      \* with a target frame count of 0..MaxTarget
MaxViewpoints   == 4  \* get_metadata, get_images: 0..MaxViewpoints requests
MaxConcurrency  == 2  \* --network-concurrency 1..MaxConcurrency, or absent
MaxImages == 4      \* optimize_sequence is run on 0..MaxImages images
MaxCallers == 2     \* threads that call progress and progress_stage
MaxCalls   == 4     \* calls of progress and progress_stage in a run
MaxElapsed == 400   \* ms the clock moves on during a run

-----------------------------------------------------------------------------
(* Program constants *)

LOOKAHEAD == 3
SKIP_PENALTY_TENTHS == 3      \* SKIP_PENALTY = 0.3 = 3 / 10
HASH_SIZE == 16               \* hash_size(16, 16)
FUDGE_HUNDREDTHS == 99        \* step = total_dist / (n - 0.99)
DEFAULT_NETWORK_CONCURRENCY == 40   \* network_concurrency.unwrap_or(40)
PROGRESS_DEBOUNCE_MS == 200

HashBits  == HASH_SIZE * HASH_SIZE
HashBytes == HashBits \div 8

\* Fixed-point representation of the f64 1.0
One == 10 * HashBits

NaN == -1

\* Rust indexes from 0, TLA+ sequences from 1
At(s, k) == s[k + 1]

Min(a, b) == IF a < b THEN a ELSE b
Max(a, b) == IF a > b THEN a ELSE b

-----------------------------------------------------------------------------
(* f64 arithmetic, as far as dp uses it *)

\* x / y for x a count of bits and y = 8 * len: 0.0 / 0.0 is NaN.  (x > 0 with
\* y = 0 would be +inf; it cannot occur, the distance from an empty hash is 0.)
FDiv(x, y) == IF y = 0 THEN NaN ELSE (x * One) \div y

FAdd(x, y) == IF x = NaN \/ y = NaN THEN NaN ELSE x + y

\* f64::partial_cmp
partial_cmp(x, y) ==
    IF x = NaN \/ y = NaN THEN "None"
    ELSE IF x < y THEN "Less"
    ELSE IF x > y THEN "Greater"
    ELSE "Equal"

-----------------------------------------------------------------------------
(* Hashes.  An ImageHash is a bit set stored in bytes: len is             *)
(* as_bytes().len() and bits is the set of positions of its 1 bits.       *)

\* ImageHash::dist, the Hamming distance: the number of 1 bits of the XOR of
\* the zipped bytes
dist(a, b) ==
    LET zipped == 0..(8 * Min(a.len, b.len) - 1)
    IN  Cardinality(((a.bits \ b.bits) \cup (b.bits \ a.bits)) \cap zipped)

\* fn cost(a, b)
cost(a, b) ==
    LET scale == 8 * a.len IN
    FDiv(dist(a, b), scale)

\* The hashes dp is tried on.  Prefix(k) has its first k bits set.
Prefix(k)   == [len |-> HashBytes, bits |-> 0..(k - 1)]
HashZero    == Prefix(0)
HashOneBit  == Prefix(1)
HashQuarter == Prefix(HashBits \div 4)
HashHalf    == Prefix(HashBits \div 2)
HashOnes    == Prefix(HashBits)
HashPool    == {HashZero, HashOneBit, HashQuarter, HashHalf, HashOnes}
EmptyHash   == [len |-> 0, bits |-> {}]

\* An input of n hashes of one bit length: from the pool, or all of length 0
HashInputs(n) == [1..n -> HashPool] \cup {[k \in 1..n |-> EmptyHash]}

-----------------------------------------------------------------------------
(* dp *)

SKIP_PENALTY == SKIP_PENALTY_TENTHS * (One \div 10)

\* lb: the mutant looks one frame too far back
lb_wide(i) == Max(0, i - (LOOKAHEAD + 1))

lb(i) == Max(0, i - LOOKAHEAD)

\* the cost of reaching frame i from candidate_index.  Two mutants: one charges
\* nothing for the skipped frames, one charges for i - candidate_index frames.
candidate_no_penalty(cs, hs, i, candidate_index) ==
    FAdd(At(cs, candidate_index), cost(At(hs, i), At(hs, candidate_index)))

candidate_off_by_one(cs, hs, i, candidate_index) ==
    FAdd(FAdd(At(cs, candidate_index),
              cost(At(hs, i), At(hs, candidate_index))),
         (i - candidate_index) * SKIP_PENALTY)

candidate(cs, hs, i, candidate_index) ==
    FAdd(FAdd(At(cs, candidate_index),
              cost(At(hs, i), At(hs, candidate_index))),
         (i - candidate_index - 1) * SKIP_PENALTY)

\* Iterator::min_by: fold from the first element, the later element wins only
\* when the comparison says Greater; the comparator panics on None.
RECURSIVE MinByFold(_, _)
MinByFold(acc, rest) ==
    IF rest = <<>> \/ acc.tag = "Panic" THEN acc
    ELSE LET y == Head(rest)
             c == partial_cmp(acc.val[1], y[1])
         IN  IF c = "None" THEN [tag |-> "Panic"]
             ELSE MinByFold([tag |-> "Some",
                             val |-> IF c = "Greater" THEN y ELSE acc.val],
                            Tail(rest))

\* the mutant keeps the last candidate instead of the cheapest
min_by_last(s) ==
    IF s = <<>> THEN [tag |-> "None"]
    ELSE [tag |-> "Some", val |-> s[Len(s)]]

min_by(s) ==
    IF s = <<>> THEN [tag |-> "None"]
    ELSE MinByFold([tag |-> "Some", val |-> Head(s)], Tail(s))

\* (lb..i).map(|candidate_index| (cost, candidate_index))
Candidates(cs, hs, i) ==
    [k \in 1..(i - lb(i)) |->
        <<candidate(cs, hs, i, lb(i) + k - 1), lb(i) + k - 1>>]

\* one iteration of the for loop: i = costs.len()
DpLoopStep ==
    /\ dpPc = "loop"
    /\ Len(costs) < Len(hashes)
    /\ LET i == Len(costs)
           m == min_by(Candidates(costs, hashes, i))
       IN  IF m.tag = "Panic"
           THEN /\ dpPc' = "panic"
                /\ UNCHANGED <<costs, prevs>>
           ELSE LET best == IF m.tag = "None" THEN <<0, 0>> ELSE m.val
                IN  /\ costs' = Append(costs, best[1])
                    /\ prevs' = Append(prevs, best[2])
                    /\ dpPc' = "loop"
    /\ UNCHANGED <<hashes, new_indices, next, notDp>>

\* the loop is over: next = hashes.len() - 1, which fails on no hashes
\* (overflow panic in a debug build, index out of bounds in a release build)
DpLoopExit ==
    /\ dpPc = "loop"
    /\ Len(costs) = Len(hashes)
    /\ IF Len(hashes) = 0
       THEN /\ dpPc' = "panic"
            /\ UNCHANGED next
       ELSE /\ dpPc' = "backtrack"
            /\ next' = Len(hashes) - 1
    /\ UNCHANGED <<hashes, costs, prevs, new_indices, notDp>>

\* while next > 0 { new_indices.push(next); next = prevs[next]; }
DpBacktrack ==
    /\ dpPc = "backtrack"
    /\ next > 0
    /\ new_indices' = Append(new_indices, next)
    /\ next' = At(prevs, next)
    /\ UNCHANGED <<hashes, costs, prevs, dpPc, notDp>>

Reverse(s) == [k \in 1..Len(s) |-> s[Len(s) + 1 - k]]

\* new_indices.push(0); new_indices.reverse(); new_indices
DpReturn ==
    /\ dpPc = "backtrack"
    /\ next = 0
    /\ new_indices' = Reverse(Append(new_indices, 0))
    /\ dpPc' = "done"
    /\ UNCHANGED <<hashes, costs, prevs, next, notDp>>

-----------------------------------------------------------------------------
(* Properties of dp *)

Returned == dpPc = "done"
NFrames  == Len(hashes)

\* every pairwise cost is a number (no hash of length 0)
FiniteCosts == \A k \in 1..NFrames : hashes[k].len > 0

StrictlyIncreasing(s) == \A k \in 1..(Len(s) - 1) : s[k] < s[k + 1]
GapsWithin(s, g)      == \A k \in 1..(Len(s) - 1) : s[k + 1] - s[k] <= g

\* C1: the index list dp returns starts with 0, ends with n - 1, is strictly
\* increasing, and consecutive indices differ by at most LOOKAHEAD.
C1_OrderShape ==
    Returned =>
        /\ Len(new_indices) >= 1
        /\ new_indices[1] = 0
        /\ new_indices[Len(new_indices)] = NFrames - 1
        /\ StrictlyIncreasing(new_indices)
        /\ GapsWithin(new_indices, LOOKAHEAD)

\* a returned order that uses a jump of exactly LOOKAHEAD frames
C1_Witness ==
    /\ Returned
    /\ NFrames >= LOOKAHEAD + 1
    /\ \E k \in 1..(Len(new_indices) - 1) :
           new_indices[k + 1] - new_indices[k] = LOOKAHEAD

\* The sequence of the elements of a set of numbers, ascending
RECURSIVE Ascending(_)
Ascending(S) ==
    IF S = {} THEN <<>>
    ELSE LET m == CHOOSE x \in S : \A y \in S : x <= y
         IN  <<m>> \o Ascending(S \ {m})

\* every strictly increasing index sequence from 0 to i with gaps <= LOOKAHEAD
PathsTo(i) ==
    {p \in {Ascending(S \cup {0, i}) : S \in SUBSET (1..(i - 1))} :
        GapsWithin(p, LOOKAHEAD)}

\* sum over the consecutive pairs (a, b) of p of
\* cost(hash[a], hash[b]) + SKIP_PENALTY * (b - a - 1)
Total(p) ==
    LET T[k \in 1..Len(p)] ==
            IF k = 1 THEN 0
            ELSE T[k - 1] + cost(At(hashes, p[k - 1]), At(hashes, p[k]))
                          + SKIP_PENALTY * (p[k] - p[k - 1] - 1)
    IN  T[Len(p)]

IsMinTotal(t, i) ==
    /\ \E p \in PathsTo(i) : Total(p) = t
    /\ \A p \in PathsTo(i) : Total(p) >= t

\* C2: the returned order has the least total among the admissible index
\* sequences from 0 to n - 1, and costs[i] is the least total of reaching i.
C2_Optimal ==
    (Returned /\ FiniteCosts) =>
        /\ IsMinTotal(Total(new_indices), NFrames - 1)
        /\ \A i \in 0..(NFrames - 1) : IsMinTotal(At(costs, i), i)

\* a returned optimal order that skips some frames and keeps others
C2_Witness ==
    /\ Returned /\ FiniteCosts
    /\ NFrames >= 4
    /\ Len(new_indices) < NFrames
    /\ Len(new_indices) > 2
    /\ At(costs, NFrames - 1) > SKIP_PENALTY

AllIdentical == \A j, k \in 1..NFrames : hashes[j] = hashes[k]

\* C3: when all hashes are identical (every pairwise cost is 0) dp returns
\* [0, 1, ..., n - 1].
C3_IdenticalKeepsAll ==
    (Returned /\ FiniteCosts /\ AllIdentical) =>
        new_indices = [k \in 1..NFrames |-> k - 1]

C3_Witness ==
    /\ Returned /\ FiniteCosts /\ AllIdentical
    /\ NFrames >= LOOKAHEAD + 1
    /\ Len(new_indices) = NFrames

\* Far: at least a quarter of the bits differ; near-identical: at most 4 bits
Far(a, b)  == 4 * cost(a, b) >= One
Near(a, b) == 64 * cost(a, b) <= One

\* 5 frames, frame 2 far from every other frame, frames 0, 1, 3, 4 mutually
\* near-identical
OutlierScenario ==
    /\ NFrames = 5
    /\ FiniteCosts
    /\ \A j \in {0, 1, 3, 4} : Far(At(hashes, 2), At(hashes, j))
    /\ \A j, k \in {0, 1, 3, 4} : Near(At(hashes, j), At(hashes, k))

NaNEvaluated ==
    \E i \in 1..(Len(costs) - 1) : \E c \in lb(i)..(i - 1) :
        cost(At(hashes, i), At(hashes, c)) = NaN

\* C5: a NaN candidate cost is fatal: dp never stores a best cost, and never
\* returns an order, that was chosen from a NaN cost.
C5_NaNIsFatal ==
    /\ \A k \in 1..Len(costs) : costs[k] # NaN
    /\ Returned => ~NaNEvaluated

-----------------------------------------------------------------------------
(* group_by_location *)

\* Coordinates lie on a line; geodesic_distance is the distance on it.
PointCoords == {0, 1}
Locations   == {0, 1}
PanoIds     == {"a", "b"}
Statuses    == {"OK", "ZERO_RESULTS"}

\* A PointBearing.  The k-th viewpoint of an input has bearing k, which tells
\* the viewpoints of one input apart.
PointBearing(p, b) == [point |-> p, bearing |-> b]

\* GSVMetadata (the date is not used by group_by_location)
GSVMetadata == [status : Statuses, pano_id : PanoIds, location : Locations]

PointBearingInputs(n) ==
    {[k \in 1..n |-> PointBearing(ps[k], k - 1)] : ps \in [1..n -> PointCoords]}

MetadataInputs(m) == [1..m -> GSVMetadata]

geodesic_distance(p, q) == IF p >= q THEN p - q ELSE q - p

\* the length of point_bearings.into_iter().zip(metadata.into_iter())
ZipLen == Min(Len(point_bearings), Len(metadata))

\* .filter(|(_, metadata)| metadata.status == "OK"); the mutant keeps every pair
is_ok_any(meta) == TRUE

is_ok(meta) == meta.status = "OK"

\* if let Some(last_pano) = last_pano { if last_pano != meta.pano_id {..} }
\* the mutant opens a group for every record after the first
starts_group_always(last, pano_id) == last.tag = "Some"

starts_group(last, pano_id) == last.tag = "Some" /\ last.val # pano_id

\* grouped_points[groups - 1].push(x)
PushToLast(groups, x) ==
    [groups EXCEPT ![Len(groups)] = Append(groups[Len(groups)], x)]

\* one turn of the for loop over the zipped, filtered pairs
GrpWalkStep ==
    /\ grpPc = "walk"
    /\ zipPos < ZipLen
    /\ LET point_bearing == At(point_bearings, zipPos)
           meta          == At(metadata, zipPos)
           opened        == IF starts_group(last_pano, meta.pano_id)
                            THEN Append(grouped_points, <<>>)
                            ELSE grouped_points
           err           == geodesic_distance(point_bearing.point, meta.location)
       IN  IF is_ok(meta)
           THEN /\ grouped_points' = PushToLast(opened, <<point_bearing, meta, err>>)
                /\ last_pano' = [tag |-> "Some", val |-> meta.pano_id]
           ELSE UNCHANGED <<grouped_points, last_pano>>
    /\ zipPos' = zipPos + 1
    /\ UNCHANGED <<point_bearings, metadata, best_groups, grpResult, grpPc, notGrp>>

\* Iterator::min_by_key on the error: the later member wins only when its key
\* is strictly smaller (OrderedFloat is totally ordered, nothing panics here)
RECURSIVE MinByKeyFold(_, _)
MinByKeyFold(acc, rest) ==
    IF rest = <<>> THEN acc
    ELSE MinByKeyFold(IF acc[3] > Head(rest)[3] THEN Head(rest) ELSE acc,
                      Tail(rest))

\* the mutant lets the later member win ties
RECURSIVE MinByKeyFoldLast(_, _)
MinByKeyFoldLast(acc, rest) ==
    IF rest = <<>> THEN acc
    ELSE MinByKeyFoldLast(IF acc[3] >= Head(rest)[3] THEN Head(rest) ELSE acc,
                          Tail(rest))

min_by_key_last(group) ==
    IF group = <<>> THEN [tag |-> "None"]
    ELSE [tag |-> "Some", val |-> MinByKeyFoldLast(Head(group), Tail(group))]

min_by_key(group) ==
    IF group = <<>> THEN [tag |-> "None"]
    ELSE [tag |-> "Some", val |-> MinByKeyFold(Head(group), Tail(group))]

\* the zipped pairs are exhausted: every group is collapsed to its best member;
\* unwrap() panics on a group without members
GrpCollapse ==
    /\ grpPc = "walk"
    /\ zipPos = ZipLen
    /\ LET mins == [g \in 1..Len(grouped_points) |-> min_by_key(grouped_points[g])]
       IN  IF \E g \in 1..Len(mins) : mins[g].tag = "None"
           THEN /\ grpPc' = "panic"
                /\ UNCHANGED <<best_groups, grpResult>>
           ELSE LET best == [g \in 1..Len(mins) |-> mins[g].val]
                IN  /\ best_groups' = best
                    /\ grpResult' =
                           [point_bearings |-> [g \in 1..Len(best) |-> best[g][1]],
                            metadata       |-> [g \in 1..Len(best) |-> best[g][2]],
                            errs           |-> [g \in 1..Len(best) |-> best[g][3]]]
                    /\ grpPc' = "done"
    /\ UNCHANGED <<point_bearings, metadata, zipPos, grouped_points, last_pano,
                   notGrp>>

-----------------------------------------------------------------------------
(* Properties of group_by_location *)

Grouped == grpPc = "done"

\* the indices of the zipped pairs with status OK, ascending
OkIndices == {j \in 0..(ZipLen - 1) : At(metadata, j).status = "OK"}

\* the input index of a member or representative: its viewpoint's bearing
IndexOf(x) == x[1].bearing

RECURSIVE Flatten(_)
Flatten(groups) ==
    IF groups = <<>> THEN <<>> ELSE Head(groups) \o Flatten(Tail(groups))

\* C6: the groups are the maximal runs of equal pano_id among the OK records:
\* the members are the OK pairs in input order, a group has one pano_id, the
\* next group another one, so consecutive representatives differ in pano_id.
C6_AdjacentGroups ==
    Grouped =>
        /\ LET members == Flatten(grouped_points)
           IN  [k \in 1..Len(members) |-> IndexOf(members[k])] = Ascending(OkIndices)
        /\ \A g \in 1..Len(grouped_points) :
               \A j, k \in 1..Len(grouped_points[g]) :
                   grouped_points[g][j][2].pano_id = grouped_points[g][k][2].pano_id
        /\ \A g \in 1..(Len(grouped_points) - 1) :
               grouped_points[g][1][2].pano_id # grouped_points[g + 1][1][2].pano_id
        /\ \A k \in 1..(Len(grpResult.metadata) - 1) :
               grpResult.metadata[k].pano_id # grpResult.metadata[k + 1].pano_id

\* a pano_id that reappears after another one: it is returned twice
C6_Witness ==
    /\ Grouped
    /\ Len(grpResult.metadata) >= 3
    /\ \E j, k \in 1..Len(grpResult.metadata) :
           /\ j + 1 < k
           /\ grpResult.metadata[j].pano_id = grpResult.metadata[k].pano_id

\* C7: one member per group is returned, its error is the least of the group,
\* and no earlier member of the group has the same error.
C7_BestOfGroup ==
    Grouped =>
        /\ Len(best_groups) = Len(grouped_points)
        /\ Len(grpResult.errs) = Len(grouped_points)
        /\ \A g \in 1..Len(grouped_points) :
               \E r \in 1..Len(grouped_points[g]) :
                   /\ best_groups[g] = grouped_points[g][r]
                   /\ grpResult.errs[g] = grouped_points[g][r][3]
                   /\ \A k \in 1..Len(grouped_points[g]) :
                          grouped_points[g][k][3] >= grouped_points[g][r][3]
                   /\ \A k \in 1..(r - 1) :
                          grouped_points[g][k][3] > grouped_points[g][r][3]

\* a group whose least error is shared by two members, neither the first
C7_Witness ==
    /\ Grouped
    /\ \E g \in 1..Len(grouped_points) :
           /\ Len(grouped_points[g]) >= 3
           /\ best_groups[g] = grouped_points[g][2]
           /\ grouped_points[g][3][3] = grouped_points[g][2][3]

\* C8: the three returned sequences have one length and are index-aligned,
\* every returned pair is an input pair with status OK, the returned pairs keep
\* their input order, and there are no more of them than OK input pairs.
C8_AlignedSubsequence ==
    Grouped =>
        LET n == Len(grpResult.point_bearings) IN
        /\ Len(grpResult.metadata) = n
        /\ Len(grpResult.errs) = n
        /\ \A k \in 1..n :
               LET j == grpResult.point_bearings[k].bearing IN
               /\ j \in 0..(ZipLen - 1)
               /\ grpResult.point_bearings[k] = At(point_bearings, j)
               /\ grpResult.metadata[k] = At(metadata, j)
               /\ grpResult.metadata[k].status = "OK"
               /\ grpResult.errs[k] =
                      geodesic_distance(At(point_bearings, j).point,
                                        At(metadata, j).location)
        /\ \A k \in 1..(n - 1) :
               grpResult.point_bearings[k].bearing
                   < grpResult.point_bearings[k + 1].bearing
        /\ n <= Cardinality(OkIndices)

\* a result that merged two OK pairs and dropped a pair that is not OK
C8_Witness ==
    /\ Grouped
    /\ Len(grpResult.errs) < Cardinality(OkIndices)
    /\ Cardinality(OkIndices) < ZipLen

\* C9: when the two arguments differ in length the operation fails and
\* returns nothing.
C9_MismatchIsFatal ==
    Len(point_bearings) # Len(metadata) => ~Grouped

\* C10: no group is empty when the groups are collapsed, whatever the input
\* (of two sequences of one length).
C10_NoEmptyGroup ==
    (grpPc \in {"done", "panic"} /\ Len(point_bearings) = Len(metadata)) =>
        \A g \in 1..Len(grouped_points) : grouped_points[g] # <<>>

-----------------------------------------------------------------------------
(* sample_points_by_distance and find_bearings (src/main.rs) *)

\* Points are positions on a line, in metres: two pairs of close neighbours,
\* far from each other.  With these positions no walked distance equals a
\* threshold step * k exactly, so the comparison below does not depend on the
\* rounding of the f64 division and product.
TrackCoords == {0, 1, 203, 204}

TrackInputs(n) == [1..n -> TrackCoords]

\* the distance from every point to the next one: one fewer than points
find_distances(ps) ==
    [k \in 1..(Len(ps) - 1) |-> geodesic_distance(ps[k], ps[k + 1])]

RECURSIVE total_dist(_)
total_dist(ds) == IF ds = <<>> THEN 0 ELSE Head(ds) + total_dist(Tail(ds))

\* current >= step * k for step = total / (n - 0.99), both sides multiplied by
\* 100 * (n - 0.99), which is positive: the loop body runs only for n >= 1.
reached(cur, total, n, k) ==
    cur * (100 * n - FUDGE_HUNDREDTHS) >= 100 * total * k

\* while sample.len() < n && idx < points.len()
loop_cond_no_limit(len, n, i, np) == i < np
loop_cond(len, n, i, np) == len < n /\ i < np

\* one iteration of the while loop
SampleStep ==
    /\ smpPc = "sample"
    /\ loop_cond(Len(sample), expected_frames, idx, Len(points))
    /\ sample' = IF reached(current, total_dist(distances), expected_frames,
                            Len(sample))
                 THEN Append(sample, At(points, idx))
                 ELSE sample
    /\ current' = IF idx < Len(distances)
                  THEN current + At(distances, idx)
                  ELSE current
    /\ idx' = idx + 1
    /\ UNCHANGED <<points, expected_frames, distances, results, smpPc, notSmp>>

\* the loop ends and the sample is handed to find_bearings
SampleReturn ==
    /\ smpPc = "sample"
    /\ ~loop_cond(Len(sample), expected_frames, idx, Len(points))
    /\ smpPc' = "bearings"
    /\ UNCHANGED <<points, expected_frames, distances, current, idx, sample,
                   results, notSmp>>

\* p1.bearing(p2) in degrees on the line: east, west, or 0 for one position
bearing(p1, p2) == IF p2 > p1 THEN 90 ELSE IF p2 < p1 THEN -90 ELSE 0

\* points.zip(points.skip(1)).map(...)
zip_bearings(ps) ==
    [k \in 1..(Len(ps) - 1) |-> PointBearing(ps[k], bearing(ps[k], ps[k + 1]))]

\* results[results.len() - 1].bearing
last_bearing_first(res) == res[1].bearing
last_bearing(res) == res[Len(res)].bearing

\* find_bearings(&sample): points[points.len() - 1] and
\* results[results.len() - 1] panic on an empty vector
FindBearings ==
    /\ smpPc = "bearings"
    /\ LET zipped == zip_bearings(sample)
       IN  IF sample = <<>> \/ zipped = <<>>
           THEN /\ smpPc' = "panic"
                /\ UNCHANGED results
           ELSE /\ results' = Append(zipped,
                                     PointBearing(sample[Len(sample)],
                                                  last_bearing(zipped)))
                /\ smpPc' = "done"
    /\ UNCHANGED <<points, expected_frames, distances, current, idx, sample,
                   notSmp>>

-----------------------------------------------------------------------------
(* Properties of sample_points_by_distance and find_bearings *)

Sampled == smpPc \in {"bearings", "done", "panic"}
BearingsOver == smpPc \in {"done", "panic"}

\* find_bearings returned one viewpoint per sampled point, in sampling order,
\* each with the bearing to the next sampled point and the last one with the
\* bearing of the one before it
ViewpointsOfSample ==
    /\ smpPc = "done"
    /\ results # <<>>
    /\ Len(results) <= expected_frames
    /\ Len(results) = Len(sample)
    /\ \A k \in 1..Len(results) : results[k].point = sample[k]
    /\ \A k \in 1..(Len(results) - 1) :
           results[k].bearing = bearing(sample[k], sample[k + 1])
    /\ Len(results) >= 2
    /\ results[Len(results)].bearing = results[Len(results) - 1].bearing

\* C11, as stated: for every track of at least 2 points and every target frame
\* count, sampling followed by find_bearings returns a non-empty sequence of at
\* most that many viewpoints, one per sampled point, the last with the bearing
\* of the second-to-last.
C11_AsStated ==
    (BearingsOver /\ Len(points) >= 2) => ViewpointsOfSample

\* C11, amended: the same for every target frame count of at least 2.
C11_Viewpoints ==
    (BearingsOver /\ Len(points) >= 2 /\ expected_frames >= 2) =>
        ViewpointsOfSample

\* viewpoints of a track that turns around: the last bearing is the one of the
\* last segment, not of the first
C11_Witness ==
    /\ smpPc = "done"
    /\ expected_frames >= 3
    /\ Len(results) = 3
    /\ Len(points) > 3
    /\ results[1].bearing # results[2].bearing
    /\ results[3].bearing = results[2].bearing

\* C12: for a non-empty track and n >= 2, the last sampled point is the last
\* point of the track.
C12_LastPointCaptured ==
    (Sampled /\ points # <<>> /\ expected_frames >= 2) =>
        /\ sample # <<>>
        /\ sample[Len(sample)] = points[Len(points)]

RECURSIVE IsSubsequence(_, _)
IsSubsequence(s, t) ==
    IF s = <<>> THEN TRUE
    ELSE IF t = <<>> THEN FALSE
    ELSE IF Head(s) = Head(t) THEN IsSubsequence(Tail(s), Tail(t))
    ELSE IsSubsequence(s, Tail(t))

\* C13, as stated: the sample is a subsequence of the track, of exactly n
\* points unless the track has fewer than n points, and then it is shorter.
C13_AsStated ==
    Sampled =>
        /\ IsSubsequence(sample, points)
        /\ Len(points) >= expected_frames => Len(sample) = expected_frames
        /\ Len(points) < expected_frames => Len(sample) < expected_frames

\* C13, amended: the sample is a subsequence of the track of at most n points
\* (and of at most as many points as the track has), starting with the first
\* point of the track.
C13_BoundedSubsequence ==
    Sampled =>
        /\ IsSubsequence(sample, points)
        /\ Len(sample) <= expected_frames
        /\ Len(sample) <= Len(points)
        /\ (expected_frames >= 1 /\ points # <<>>) =>
               (sample # <<>> /\ sample[1] = points[1])

\* a track with enough points whose sample still has fewer than n of them
C13_Witness ==
    /\ Sampled
    /\ Len(points) >= expected_frames
    /\ Len(sample) >= 2
    /\ Len(sample) < expected_frames

-----------------------------------------------------------------------------
(* get_metadata and get_images (src/main.rs): requests through              *)
(* buffer_unordered                                                         *)

\* CLI_OPTIONS.network_concurrency.unwrap_or(40)
concurrency_limit(opt) ==
    IF opt.tag = "Some" THEN opt.val ELSE DEFAULT_NETWORK_CONCURRENCY

\* the body the server sends for the request of viewpoint index
Body(index) == [viewpoint |-> index]

\* format!("{}.jpg", &index)
jpg(index) == <<index, "jpg">>

\* tokio::fs::write(filename, bytes)
write(fs, filename, bytes) ==
    [f \in DOMAIN fs \cup {filename} |-> IF f = filename THEN bytes ELSE fs[f]]

\* buffer_unordered(limit) takes the next future from the iterator only while
\* fewer than limit futures are in progress
has_room_plus_one(in_progress, limit) == Cardinality(in_progress) <= limit
has_room(in_progress, limit) == Cardinality(in_progress) < limit

\* the stream starts the request of the next viewpoint
FetchStart ==
    /\ fetchPc = "stream"
    /\ started < n_viewpoints
    /\ has_room(in_flight, concurrency_limit(network_concurrency))
    /\ in_flight' = in_flight \cup {started}
    /\ started' = started + 1
    /\ UNCHANGED <<fetch_fn, n_viewpoints, network_concurrency,
                   indexed_metadata, fetched_metadata, files, fetchPc, notFetch>>

\* get_metadata: a request in flight completes, whichever it is; its body is
\* parsed and collected with its index
MetadataComplete ==
    /\ fetchPc = "stream"
    /\ fetch_fn = "get_metadata"
    /\ \E index \in in_flight :
           /\ in_flight' = in_flight \ {index}
           /\ indexed_metadata' = Append(indexed_metadata, <<index, Body(index)>>)
    /\ UNCHANGED <<fetch_fn, n_viewpoints, network_concurrency, started,
                   fetched_metadata, files, fetchPc, notFetch>>

\* get_images: a request in flight completes, whichever it is; for_each
\* writes its bytes to the file named after its index
ImageComplete ==
    /\ fetchPc = "stream"
    /\ fetch_fn = "get_images"
    /\ \E index \in in_flight :
           /\ in_flight' = in_flight \ {index}
           /\ files' = write(files, jpg(index), Body(index))
    /\ UNCHANGED <<fetch_fn, n_viewpoints, network_concurrency, started,
                   indexed_metadata, fetched_metadata, fetchPc, notFetch>>

\* a request fails (resp.unwrap(), bytes.unwrap()) or its body is no metadata
\* (expect("Could not parse GSV metadata")): the program panics
FetchFail ==
    /\ fetchPc = "stream"
    /\ in_flight # {}
    /\ fetchPc' = "panic"
    /\ UNCHANGED <<fetch_fn, n_viewpoints, network_concurrency, started,
                   in_flight, indexed_metadata, fetched_metadata, files,
                   notFetch>>

\* sort_unstable_by_key(|&(index, _)| index): the indices are distinct, so
\* the element at position j is the one with j - 1 smaller indices
sort_by_index_skipped(s) == s
sort_by_index(s) ==
    [j \in 1..Len(s) |->
        CHOOSE e \in {s[i] : i \in 1..Len(s)} :
            Cardinality({i \in 1..Len(s) : s[i][1] < e[1]}) = j - 1]

\* the stream is exhausted: get_metadata sorts by index and returns the data,
\* get_images returns
FetchReturn ==
    /\ fetchPc = "stream"
    /\ started = n_viewpoints
    /\ in_flight = {}
    /\ fetched_metadata' =
           IF fetch_fn = "get_metadata"
           THEN LET sorted == sort_by_index(indexed_metadata)
                IN  [j \in 1..Len(sorted) |-> sorted[j][2]]
           ELSE fetched_metadata
    /\ fetchPc' = "done"
    /\ UNCHANGED <<fetch_fn, n_viewpoints, network_concurrency, started,
                   in_flight, indexed_metadata, files, notFetch>>

-----------------------------------------------------------------------------
(* Properties of get_metadata and get_images *)

\* C14: get_metadata returns one record per requested viewpoint, record k
\* being the response to the request for viewpoint k, in whatever order the
\* requests completed.
C14_MetadataInRequestOrder ==
    (fetchPc = "done" /\ fetch_fn = "get_metadata") =>
        /\ Len(fetched_metadata) = n_viewpoints
        /\ \A k \in 0..(n_viewpoints - 1) : At(fetched_metadata, k) = Body(k)

\* get_metadata returned although the last request completed first
C14_Witness ==
    /\ fetchPc = "done"
    /\ fetch_fn = "get_metadata"
    /\ n_viewpoints >= 3
    /\ indexed_metadata[1][1] = n_viewpoints - 1
    /\ Len(fetched_metadata) = n_viewpoints

\* C16: never more than network_concurrency (40 when not given) requests are
\* in flight, and get_images writes the response for viewpoint k to k.jpg.
C16_BoundedAndNamed ==
    /\ Cardinality(in_flight) <= concurrency_limit(network_concurrency)
    /\ network_concurrency.tag = "None" =>
           concurrency_limit(network_concurrency) = 40
    /\ fetch_fn = "get_images" =>
           /\ \A f \in DOMAIN files :
                  \E k \in 0..(n_viewpoints - 1) : f = jpg(k) /\ files[f] = Body(k)
           /\ fetchPc = "done" =>
                  \A k \in 0..(n_viewpoints - 1) : jpg(k) \in DOMAIN files

\* the limit is reached while a viewpoint still waits, and a later image is
\* written before an earlier one
C16_Witness ==
    /\ fetch_fn = "get_images"
    /\ fetchPc = "stream"
    /\ Cardinality(in_flight) = concurrency_limit(network_concurrency)
    /\ started < n_viewpoints
    /\ jpg(1) \in DOMAIN files
    /\ jpg(0) \notin DOMAIN files

-----------------------------------------------------------------------------
(* main (src/main.rs): the order of the pipeline's stages                   *)

\* the stage functions main awaits one after the other
ImageStages == {"get_images"}
VideoStages == {"create_timelapse", "rename", "blend_timelapse", "minterp_timelapse"}

Started(f)  == <<f, "start">>
Finished(f) == <<f, "end">>

\* main calls f: the call is recorded and main waits for it
Call(f, pcNext) ==
    /\ calls' = Append(calls, Started(f))
    /\ mainPc' = pcNext

\* if CLI_OPTIONS.dry_run { return; }
returns_after_report_never(dry) == FALSE
returns_after_report(dry) == dry

\* parsing, find_distances, interp_points, sampling and find_bearings
MainFindViewpoints ==
    /\ mainPc = "start"
    /\ Call("find_bearings", "find_bearings")
    /\ UNCHANGED <<dry_run, print_metadata, minterp, notMain>>

\* the awaited stage returns, and main goes on to the code after the call
MainStageReturns ==
    /\ mainPc \in {"find_bearings", "get_metadata", "group_by_location",
                   "get_images", "create_timelapse", "rename",
                   "blend_timelapse", "minterp_timelapse"}
    /\ calls' = Append(calls, Finished(mainPc))
    /\ mainPc' = CASE mainPc = "find_bearings"     -> "viewpoints"
                   [] mainPc = "get_metadata"      -> "fetched"
                   [] mainPc = "group_by_location" -> "grouped"
                   [] mainPc = "get_images"        -> "images"
                   [] mainPc = "create_timelapse"  -> "video"
                   [] OTHER                        -> "returned"
    /\ UNCHANGED <<dry_run, print_metadata, minterp, notMain>>

\* the awaited stage panics (an unwrap or expect in it fails): the process ends
MainStagePanics ==
    /\ mainPc \in {"find_bearings", "get_metadata", "group_by_location",
                   "get_images", "create_timelapse", "rename",
                   "blend_timelapse", "minterp_timelapse"}
    /\ mainPc' = "panic"
    /\ UNCHANGED <<dry_run, print_metadata, minterp, calls, notMain>>

\* let metadata = get_metadata(&points).await;
MainGetMetadata ==
    /\ mainPc = "viewpoints"
    /\ Call("get_metadata", "get_metadata")
    /\ UNCHANGED <<dry_run, print_metadata, minterp, notMain>>

\* let (mut points, metadata, errs) = group_by_location(points, metadata);
MainGroupByLocation ==
    /\ mainPc = "fetched"
    /\ Call("group_by_location", "group_by_location")
    /\ UNCHANGED <<dry_run, print_metadata, minterp, notMain>>

\* the metadata result is printed if asked for; a dry run returns here
MainReport ==
    /\ mainPc = "grouped"
    /\ calls' = IF dry_run \/ print_metadata
                THEN Append(calls, <<"println", "metadata_result">>)
                ELSE calls
    /\ mainPc' = IF returns_after_report(dry_run) THEN "returned" ELSE "reported"
    /\ UNCHANGED <<dry_run, print_metadata, minterp, notMain>>

\* get_images(&points, &output_dir).await;
MainGetImages ==
    /\ mainPc = "reported"
    /\ Call("get_images", "get_images")
    /\ UNCHANGED <<dry_run, print_metadata, minterp, notMain>>

\* create_timelapse(&output_dir, points.len(), &original_timelapse_name).await;
MainCreateTimelapse ==
    /\ mainPc = "images"
    /\ Call("create_timelapse", "create_timelapse")
    /\ UNCHANGED <<dry_run, print_metadata, minterp, notMain>>

\* match minterp.unwrap_or("good"): "skip" renames the video, "fast" blends
\* it, anything else interpolates it
MainMinterp ==
    /\ mainPc = "video"
    /\ Call(CASE minterp = "skip" -> "rename"
              [] minterp = "fast" -> "blend_timelapse"
              [] OTHER            -> "minterp_timelapse",
            CASE minterp = "skip" -> "rename"
              [] minterp = "fast" -> "blend_timelapse"
              [] OTHER            -> "minterp_timelapse")
    /\ UNCHANGED <<dry_run, print_metadata, minterp, notMain>>

-----------------------------------------------------------------------------
(* Properties of main *)

StartedAt(i, fs) == calls[i][2] = "start" /\ calls[i][1] \in fs
FinishedBefore(i, f) == \E j \in 1..(i - 1) : calls[j] = Finished(f)

\* C15: a dry run prints the metadata result and stops, without any image
\* fetch or video stage; otherwise the image fetch starts only after the
\* metadata fetch and the deduplication are over, and the video stages only
\* after the image fetch is over.
C15_StageOrder ==
    /\ dry_run =>
           /\ \A i \in 1..Len(calls) : ~StartedAt(i, ImageStages \cup VideoStages)
           /\ mainPc \notin {"reported", "images", "video"}
                                \cup ImageStages \cup VideoStages
           /\ mainPc = "returned" =>
                  (calls # <<>> /\
                   calls[Len(calls)] = <<"println", "metadata_result">>)
    /\ ~dry_run =>
           \A i \in 1..Len(calls) :
               /\ StartedAt(i, ImageStages) =>
                      /\ FinishedBefore(i, "get_metadata")
                      /\ FinishedBefore(i, "group_by_location")
               /\ StartedAt(i, VideoStages) => FinishedBefore(i, "get_images")

\* a dry run that has returned after printing the metadata result
C15_Witness ==
    /\ dry_run
    /\ mainPc = "returned"
    /\ calls[Len(calls)] = <<"println", "metadata_result">>
    /\ \E i \in 1..Len(calls) : calls[i] = Finished("group_by_location")

-----------------------------------------------------------------------------
(* optimize_sequence (src/optim.rs) *)

\* The images get_images may have stored, and what hash makes of them: two
\* views of one road that differ in one bit of the hash, and a view with
\* half of the bits different.
Images == {"road", "road_again", "truck"}

hash(img) == CASE img = "road"       -> HashZero
               [] img = "road_again" -> HashOneBit
               [] OTHER              -> HashHalf

\* what a file k.opt.jpg of an earlier run holds
Stale == "stale"

\* format!("{}.opt.jpg", &to)
opt_jpg(to) == <<to, "opt.jpg">>

\* the directory get_images has filled with n images, with or without the
\* .opt.jpg files of an earlier run
ImageDir(imgs, stale) ==
    [f \in {jpg(i) : i \in 0..(Len(imgs) - 1)}
           \cup (IF stale THEN {opt_jpg(i) : i \in 0..(Len(imgs) - 1)} ELSE {})
       |-> IF f[2] = "jpg" THEN At(imgs, f[1]) ELSE Stale]

\* every image is opened and hashed, and dp is entered with the hashes
OptHash ==
    /\ optPc = "hash"
    /\ IF \E i \in 0..(n_images - 1) : jpg(i) \notin DOMAIN image_dir
       THEN /\ optPc' = "panic"
            /\ UNCHANGED dpVars
       ELSE /\ hashes' = [k \in 1..n_images |-> hash(image_dir[jpg(k - 1)])]
            /\ costs' = <<>>
            /\ prevs' = <<>>
            /\ new_indices' = <<>>
            /\ next' = 0
            /\ dpPc' = "loop"
            /\ optPc' = "dp"
    /\ UNCHANGED <<images, n_images, image_dir, kept_indices, copied, optResult,
                   notOptNorDp>>

\* let kept_indices = dp(hashes); a panic of dp ends optimize_sequence
OptDp ==
    /\ optPc = "dp"
    /\ dpPc \in {"done", "panic"}
    /\ IF dpPc = "done"
       THEN /\ kept_indices' = new_indices
            /\ optPc' = "copy"
       ELSE /\ optPc' = "panic"
            /\ UNCHANGED kept_indices
    /\ UNCHANGED <<images, n_images, image_dir, copied, optResult, notOpt>>

\* the file the copy number to reads: format!("{}.jpg", &from)
copy_source_same(kept, to) == jpg(to)
copy_source(kept, to) == jpg(At(kept, to))

\* for_each over kept_indices.iter().enumerate(): one tokio::fs::copy after
\* the other
OptCopy ==
    /\ optPc = "copy"
    /\ copied < Len(kept_indices)
    /\ LET from_filename == copy_source(kept_indices, copied)
           to_filename   == opt_jpg(copied)
       IN  IF from_filename \in DOMAIN image_dir
           THEN /\ image_dir' = write(image_dir, to_filename,
                                      image_dir[from_filename])
                /\ copied' = copied + 1
                /\ UNCHANGED optPc
           ELSE /\ optPc' = "panic"
                /\ UNCHANGED <<image_dir, copied>>
    /\ UNCHANGED <<images, n_images, kept_indices, optResult, notOpt>>

\* kept_indices.len()
OptReturn ==
    /\ optPc = "copy"
    /\ copied = Len(kept_indices)
    /\ optResult' = Len(kept_indices)
    /\ optPc' = "done"
    /\ UNCHANGED <<images, n_images, image_dir, kept_indices, copied, notOpt>>

-----------------------------------------------------------------------------
(* Properties of optimize_sequence *)

\* C17: when optimize_sequence returns, with order the list dp returned and m
\* its length, every k.opt.jpg for k < m is a copy of order[k].jpg, no other
\* .opt.jpg file was written, every i.jpg is as before, and m is returned.
C17_CopiesOfKept ==
    optPc = "done" =>
        LET order == kept_indices
            m     == Len(order)
        IN  /\ \A k \in 0..(m - 1) :
                   /\ opt_jpg(k) \in DOMAIN image_dir
                   /\ image_dir[opt_jpg(k)] = image_dir[jpg(At(order, k))]
            /\ \A f \in DOMAIN image_dir :
                   (f[2] = "opt.jpg" /\ f[1] >= m) => image_dir[f] = Stale
            /\ \A i \in 0..(n_images - 1) :
                   /\ jpg(i) \in DOMAIN image_dir
                   /\ image_dir[jpg(i)] = At(images, i)
            /\ optResult = m

\* a run that dropped an image, over the files of an earlier run: a later
\* image was copied to the place of the dropped one
C17_Witness ==
    /\ optPc = "done"
    /\ optResult = 2
    /\ n_images = 3
    /\ kept_indices = <<0, 2>>
    /\ image_dir[opt_jpg(1)] = At(images, 2)
    /\ At(images, 1) # At(images, 2)
    /\ image_dir[opt_jpg(2)] = Stale

-----------------------------------------------------------------------------
(* progress and progress_stage (src/progress.rs) *)

Callers == 1..MaxCallers

\* SystemTime::now() in ms since the epoch: long after the epoch when the
\* program starts, and moved on by less than, or by half of, the debounce time
ClockStart == 5 * PROGRESS_DEBOUNCE_MS
ClockEnd   == ClockStart + MaxElapsed
Ticks      == {PROGRESS_DEBOUNCE_MS \div 2, PROGRESS_DEBOUNCE_MS - 1}

Idle == [at |-> "idle", call |-> 0]
Printing(type, call) == [at |-> type, call |-> call]

\* the clock moves on
Tick ==
    /\ prgPc = "run"
    /\ \E d \in Ticks :
           /\ clock + d <= ClockEnd
           /\ clock' = clock + d
    /\ UNCHANGED <<progress_enabled, last_progress_time, callerPc, decisions,
                   stdout, prgPc, notPrg>>

\* if *last_progress_time + PROGRESS_DEBOUNCE_MS > current_time { return; }
debounced_never(last, current_time) == FALSE
debounced(last, current_time) == last + PROGRESS_DEBOUNCE_MS > current_time

\* a caller enters progress(): without --progress it returns at once;
\* otherwise it takes the lock, reads the clock, returns if the last message
\* is too recent and else stores the time and leaves the lock to print
ProgressCall ==
    /\ prgPc = "run"
    /\ Len(decisions) < MaxCalls
    /\ \E c \in Callers :
           /\ callerPc[c] = Idle
           /\ IF ~progress_enabled
              THEN /\ decisions' = Append(decisions, [fn |-> "progress",
                                          kind |-> "OFF", time |-> clock])
                   /\ UNCHANGED <<last_progress_time, callerPc>>
              ELSE IF debounced(last_progress_time, clock)
              THEN /\ decisions' = Append(decisions, [fn |-> "progress",
                                          kind |-> "SKIPPED", time |-> clock])
                   /\ UNCHANGED <<last_progress_time, callerPc>>
              ELSE /\ last_progress_time' = clock
                   /\ decisions' = Append(decisions, [fn |-> "progress",
                                          kind |-> "PROGRESS", time |-> clock])
                   /\ callerPc' = [callerPc EXCEPT
                          ![c] = Printing("PROGRESS", Len(decisions) + 1)]
    /\ UNCHANGED <<progress_enabled, clock, stdout, prgPc, notPrg>>

\* a caller enters progress_stage(): without --progress it returns at once;
\* otherwise it resets the last progress time under the lock and leaves the
\* lock to print
ProgressStageCall ==
    /\ prgPc = "run"
    /\ Len(decisions) < MaxCalls
    /\ \E c \in Callers :
           /\ callerPc[c] = Idle
           /\ IF ~progress_enabled
              THEN /\ decisions' = Append(decisions, [fn |-> "progress_stage",
                                          kind |-> "OFF", time |-> clock])
                   /\ UNCHANGED <<last_progress_time, callerPc>>
              ELSE /\ last_progress_time' = 0
                   /\ decisions' = Append(decisions, [fn |-> "progress_stage",
                                          kind |-> "PROGRESS_STAGE", time |-> clock])
                   /\ callerPc' = [callerPc EXCEPT
                          ![c] = Printing("PROGRESS_STAGE", Len(decisions) + 1)]
    /\ UNCHANGED <<progress_enabled, clock, stdout, prgPc, notPrg>>

\* println!: the caller writes its line and returns
PrintLine ==
    /\ prgPc = "run"
    /\ \E c \in Callers :
           /\ callerPc[c] # Idle
           /\ stdout' = Append(stdout, [type |-> callerPc[c].at,
                                        call |-> callerPc[c].call])
           /\ callerPc' = [callerPc EXCEPT ![c] = Idle]
    /\ UNCHANGED <<progress_enabled, last_progress_time, clock, decisions,
                   prgPc, notPrg>>

-----------------------------------------------------------------------------
(* Properties of progress and progress_stage *)

\* the call with number i prints, or has printed, its line
Emitted(i) ==
    \/ \E c \in Callers : callerPc[c] = Printing(decisions[i].kind, i)
    \/ \E l \in 1..Len(stdout) :
           stdout[l] = [type |-> decisions[i].kind, call |-> i]

StageBetween(i, j) ==
    \E s \in (i + 1)..(j - 1) : decisions[s].fn = "progress_stage"

-----------------------------------------------------------------------------
(* Specifications *)

DpStart ==
    /\ hashes \in UNION {HashInputs(n) : n \in 0..MaxFrames}
    /\ costs = <<>>
    /\ prevs = <<>>
    /\ new_indices = <<>>
    /\ next = 0
    /\ dpPc = "loop"

DpIdle ==
    /\ hashes = <<>>
    /\ costs = <<>>
    /\ prevs = <<>>
    /\ new_indices = <<>>
    /\ next = 0
    /\ dpPc = "idle"

NoResult == [point_bearings |-> <<>>, metadata |-> <<>>, errs |-> <<>>]

GrpIdle ==
    /\ point_bearings = <<>>
    /\ metadata = <<>>
    /\ zipPos = 0
    /\ grouped_points = <<>>
    /\ last_pano = [tag |-> "None"]
    /\ best_groups = <<>>
    /\ grpResult = NoResult
    /\ grpPc = "idle"

\* group_by_location is entered: grouped_points = vec![vec![]], last_pano = None
GrpStart ==
    /\ point_bearings \in UNION {PointBearingInputs(n) : n \in 0..MaxPoints}
    /\ metadata \in UNION {MetadataInputs(m) : m \in 0..MaxPoints}
    /\ zipPos = 0
    /\ grouped_points = << <<>> >>
    /\ last_pano = [tag |-> "None"]
    /\ best_groups = <<>>
    /\ grpResult = NoResult
    /\ grpPc = "walk"

SmpIdle ==
    /\ points = <<>>
    /\ expected_frames = 0
    /\ distances = <<>>
    /\ current = 0
    /\ idx = 0
    /\ sample = <<>>
    /\ results = <<>>
    /\ smpPc = "idle"

\* sample_points_by_distance(&all_points, expected_frames, &distances) is
\* entered with the distances of the track
SmpStart ==
    /\ points \in UNION {TrackInputs(n) : n \in 0..MaxTrack}
    /\ expected_frames \in 0..MaxTarget
    /\ distances = find_distances(points)
    /\ current = 0
    /\ idx = 0
    /\ sample = <<>>
    /\ results = <<>>
    /\ smpPc = "sample"

FetchIdle ==
    /\ fetch_fn = "none"
    /\ n_viewpoints = 0
    /\ network_concurrency = [tag |-> "None"]
    /\ started = 0
    /\ in_flight = {}
    /\ indexed_metadata = <<>>
    /\ fetched_metadata = <<>>
    /\ files = <<>>
    /\ fetchPc = "idle"

\* get_metadata or get_images is entered with n_viewpoints viewpoints; the
\* option --network-concurrency is absent or a positive number
FetchStartState ==
    /\ fetch_fn \in {"get_metadata", "get_images"}
    /\ n_viewpoints \in 0..MaxViewpoints
    /\ network_concurrency \in
           {[tag |-> "None"]} \cup {[tag |-> "Some", val |-> c] : c \in 1..MaxConcurrency}
    /\ started = 0
    /\ in_flight = {}
    /\ indexed_metadata = <<>>
    /\ fetched_metadata = <<>>
    /\ files = <<>>
    /\ fetchPc = "stream"

MainIdle ==
    /\ dry_run = FALSE
    /\ print_metadata = FALSE
    /\ minterp = "good"
    /\ calls = <<>>
    /\ mainPc = "idle"

\* main is entered with the parsed command line
MainStart ==
    /\ dry_run \in BOOLEAN
    /\ print_metadata \in BOOLEAN
    /\ minterp \in {"skip", "fast", "good"}
    /\ calls = <<>>
    /\ mainPc = "start"

OptIdle ==
    /\ images = <<>>
    /\ n_images = 0
    /\ image_dir = <<>>
    /\ kept_indices = <<>>
    /\ copied = 0
    /\ optResult = 0
    /\ optPc = "idle"

\* optimize_sequence(image_dir, n_images) is entered on a directory with the
\* n_images images of get_images
OptStart ==
    /\ images \in UNION {[1..n -> Images] : n \in 0..MaxImages}
    /\ n_images = Len(images)
    /\ image_dir \in {ImageDir(images, stale) : stale \in BOOLEAN}
    /\ kept_indices = <<>>
    /\ copied = 0
    /\ optResult = 0
    /\ optPc = "hash"

PrgIdle ==
    /\ progress_enabled = FALSE
    /\ last_progress_time = 0
    /\ clock = 0
    /\ callerPc = <<>>
    /\ decisions = <<>>
    /\ stdout = <<>>
    /\ prgPc = "idle"

\* the program starts: LAST_PROGRESS_TIME is Mutex::new(0), nothing is printed
PrgStart ==
    /\ progress_enabled \in BOOLEAN
    /\ last_progress_time = 0
    /\ clock = ClockStart
    /\ callerPc = [c \in Callers |-> Idle]
    /\ decisions = <<>>
    /\ stdout = <<>>
    /\ prgPc = "run"

\* dp on every input of up to MaxFrames hashes
InitDp == DpStart /\ GrpIdle /\ SmpIdle /\ FetchIdle /\ MainIdle /\ OptIdle /\ PrgIdle

NextDp == DpLoopStep \/ DpLoopExit \/ DpBacktrack \/ DpReturn

SpecDp == InitDp /\ [][NextDp]_vars

\* group_by_location on every pair of inputs of up to MaxPoints elements
InitGroup == GrpStart /\ DpIdle /\ SmpIdle /\ FetchIdle /\ MainIdle /\ OptIdle /\ PrgIdle

NextGroup == GrpWalkStep \/ GrpCollapse

SpecGroup == InitGroup /\ [][NextGroup]_vars

\* sampling and find_bearings on every track of up to MaxTrack points
InitSample == SmpStart /\ DpIdle /\ GrpIdle /\ FetchIdle /\ MainIdle /\ OptIdle /\ PrgIdle

NextSample == SampleStep \/ SampleReturn \/ FindBearings

SpecSample == InitSample /\ [][NextSample]_vars

\* get_metadata and get_images on up to MaxViewpoints viewpoints
InitFetch == FetchStartState /\ DpIdle /\ GrpIdle /\ SmpIdle /\ MainIdle /\ OptIdle /\ PrgIdle

NextFetch ==
    FetchStart \/ MetadataComplete \/ ImageComplete \/ FetchFail \/ FetchReturn

SpecFetch == InitFetch /\ [][NextFetch]_vars

\* main under every combination of --dry-run, --print-metadata and --minterp
InitMain == MainStart /\ DpIdle /\ GrpIdle /\ SmpIdle /\ FetchIdle /\ OptIdle /\ PrgIdle

NextMain ==
    \/ MainFindViewpoints
    \/ MainStageReturns
    \/ MainStagePanics
    \/ MainGetMetadata
    \/ MainGroupByLocation
    \/ MainReport
    \/ MainGetImages
    \/ MainCreateTimelapse
    \/ MainMinterp

SpecMain == InitMain /\ [][NextMain]_vars

\* optimize_sequence, with the dp it calls, on up to MaxImages images
InitOpt ==
    OptStart /\ DpIdle /\ GrpIdle /\ SmpIdle /\ FetchIdle /\ MainIdle /\ PrgIdle

NextOpt ==
    \/ OptHash
    \/ DpLoopStep
    \/ DpLoopExit
    \/ DpBacktrack
    \/ DpReturn
    \/ OptDp
    \/ OptCopy
    \/ OptReturn

SpecOpt == InitOpt /\ [][NextOpt]_vars

\* up to MaxCalls calls of progress and progress_stage by MaxCallers threads
InitProgress ==
    PrgStart /\ DpIdle /\ GrpIdle /\ SmpIdle /\ FetchIdle /\ MainIdle /\ OptIdle

NextProgress == Tick \/ ProgressCall \/ ProgressStageCall \/ PrintLine

SpecProgress == InitProgress /\ [][NextProgress]_vars

====
